---- MODULE Spec2Model ----
(***************************************************************************)
(* A model of the arping library (package arping): the public ping and     *)
(* gratuitous-announce workflows of arping.go, option application of       *)
(* options.go and interface selection of netutils.go.  The raw session     *)
(* (initialize / send / receive / deinitialize) and the ARP datagram type  *)
(* live in platform files that are not part of the sources at hand; they   *)
(* are modelled from their specification.                                  *)
(***************************************************************************)
EXTENDS Integers, Sequences, FiniteSets, TLC

\* ------------------------------------------------------------------ bounds

\* Number of public calls made one after the other by the caller.
MaxCalls == 2

\* Longest option list handed to PingWithOptions / GratuitousArpWithOptions.
MaxOpts == 2

\* Readings of the clock: 0..MaxTime
MaxTime == 2

Calls == 1..MaxCalls

\* --------------------------------------------------------------- constants

\* net.IPv4len
IPv4len == 4

\* timeout = time.Duration(500 * time.Millisecond), in milliseconds
DefaultTimeout == 500

\* SetTimeout(time.Duration(10 * time.Millisecond)) of the leak test
TestTimeout == 10

\* ARP opcodes
requestOper == 1
responseOper == 2

\* ------------------------------------------------------------ IP addresses

\* A net.IP value: nil, a 4-byte IPv4 address, the 16-byte form of an IPv4
\* address (what net.ParseIP returns for dotted input), or an IPv6 address.
NilIP == [kind |-> "nil", net |-> "none", host |-> 0]

V4(n, h) == [kind |-> "v4", net |-> n, host |-> h]

V4in6(n, h) == [kind |-> "v4in6", net |-> n, host |-> h]

V6(h) == [kind |-> "v6", net |-> "fe80", host |-> h]

\* len(ip)
LenIP(ip) == CASE ip.kind = "nil" -> 0
               [] ip.kind = "v4" -> 4
               [] OTHER -> 16

\* ip.To4(): the 4-byte form of an IPv4 address, nil for anything else
To4(ip) == IF ip.kind \in {"v4", "v4in6"} THEN V4(ip.net, ip.host) ELSE NilIP

\* net.IP.Equal: an IPv4 address and its 16-byte form are the same address
IPEqual(a, b) ==
    IF a.kind = "nil" \/ b.kind = "nil" THEN a.kind = b.kind
    ELSE IF To4(a) # NilIP /\ To4(b) # NilIP THEN To4(a) = To4(b)
    ELSE a = b

\* fmt.Errorf("not a valid v4 Address: %s", ip) for every length but 4
validateIPLax(ip) == IF LenIP(ip) = 0 THEN "InvalidAddress" ELSE "nil"

validateIP(ip) == IF LenIP(To4(ip)) # IPv4len THEN "InvalidAddress" ELSE "nil"

\* -------------------------------------------------------------- interfaces

\* One bound network of an interface (*net.IPNet): the local address and
\* the network it lies in; fam 6 is an IPv6 network.
Addr(ip, fam) == [ip |-> ip, net |-> ip.net, fam |-> fam]

\* net.Interfaces(), in enumeration order.  Flag bit 1 is FlagUp.
Interfaces ==
    << [name |-> "lo",   hw |-> "none", flags |-> 1,
        addrs |-> << Addr(V4("L", 1), 4) >>],
       [name |-> "eth0", hw |-> "m0", flags |-> 0,
        addrs |-> << Addr(V4("A", 1), 4) >>],
       [name |-> "eth1", hw |-> "m1", flags |-> 1,
        addrs |-> << Addr(V6(1), 6), Addr(V4("A", 2), 4) >>],
       [name |-> "eth2", hw |-> "m2", flags |-> 1,
        addrs |-> << Addr(V4("B", 1), 4), Addr(V4("A", 3), 4) >>] >>

\* A nil *net.Interface
NoIface == [name |-> "", hw |-> "none", flags |-> 0, addrs |-> << >>]

\* ipnet.Contains(ip): an IPv4 network holds the IPv4 addresses of its net,
\* in either form
Contains(ipnet, ip) == ipnet.fam = 4 /\ To4(ip) # NilIP /\ To4(ip).net = ipnet.net

\* net.InterfaceByName
InterfaceByName(name) ==
    LET hits == {i \in 1..Len(Interfaces) : Interfaces[i].name = name}
    IN  IF hits = {} THEN [iface |-> NoIface, err |-> "NoSuchInterface"]
        ELSE [iface |-> Interfaces[CHOOSE i \in hits : TRUE], err |-> "nil"]

\* the address loop of findIpInNetworkFromIface, from address i on
RECURSIVE scanAddrs(_, _, _)
scanAddrs(dstIp, iface, i) ==
    IF i > Len(iface.addrs) THEN [ip |-> NilIP, err |-> "CantReach"]
    ELSE IF Contains(iface.addrs[i], dstIp)
         THEN [ip |-> iface.addrs[i].ip, err |-> "nil"]
         ELSE scanAddrs(dstIp, iface, i + 1)

findIpInNetworkFromIface(dstIp, iface) == scanAddrs(dstIp, iface, 1)

\* a scan that takes every interface for up
isDownNever(iface) == FALSE

isDown(iface) == iface.flags % 2 = 0

hasAddressInNetwork(dstIp, iface) ==
    findIpInNetworkFromIface(dstIp, iface).err = "nil"

\* the interface loop of findUsableInterfaceForNetwork, from interface i on
RECURSIVE scanIfaces(_, _)
scanIfaces(dstIp, i) ==
    IF i > Len(Interfaces) THEN [iface |-> NoIface, err |-> "NoUsableInterfaceFound"]
    ELSE IF isDown(Interfaces[i]) THEN scanIfaces(dstIp, i + 1)
    ELSE IF ~hasAddressInNetwork(dstIp, Interfaces[i]) THEN scanIfaces(dstIp, i + 1)
    ELSE [iface |-> Interfaces[i], err |-> "nil"]

findUsableInterfaceForNetwork(dstIp) == scanIfaces(dstIp, 1)

\* ----------------------------------------------------------------- options

\* type options struct { iface, sourceIP, timeout }
newOptions(tmo) == [iface |-> NoIface, sourceIP |-> NilIP, timeout |-> tmo]

WithIfaceByName(name) == [type |-> "ifaceName", name |-> name]

WithIface(iface) == [type |-> "netInterface", iface |-> iface]

WithSourceIP(ip) == [type |-> "netIP", ip |-> ip]

WithTimeout(d) == [type |-> "duration", d |-> d]

\* func (n ifaceName) apply
applyIfaceName(n, opts) ==
    LET r == InterfaceByName(n.name)
    IN  IF r.err # "nil" THEN [ops |-> opts, err |-> r.err]
        ELSE [ops |-> [opts EXCEPT !.iface = r.iface], err |-> "nil"]

\* func (n netInterface) apply
applyNetInterface(n, opts) ==
    [ops |-> [opts EXCEPT !.iface = n.iface], err |-> "nil"]

\* a source address option that keeps an address already set
applyNetIPFirstWins(n, opts) ==
    [ops |-> IF opts.sourceIP = NilIP THEN [opts EXCEPT !.sourceIP = n.ip] ELSE opts,
     err |-> "nil"]

\* func (n netIP) apply
applyNetIP(n, opts) ==
    [ops |-> [opts EXCEPT !.sourceIP = n.ip], err |-> "nil"]

\* func (n duration) apply
applyDuration(n, opts) ==
    [ops |-> [opts EXCEPT !.timeout = n.d], err |-> "nil"]

\* opt.apply(ops), dispatched on the option's dynamic type
apply(opt, opts) ==
    CASE opt.type = "ifaceName" -> applyIfaceName(opt, opts)
      [] opt.type = "netInterface" -> applyNetInterface(opt, opts)
      [] opt.type = "netIP" -> applyNetIP(opt, opts)
      [] opt.type = "duration" -> applyDuration(opt, opts)

\* for _, opt := range opts { if err := opt.apply(ops); err != nil { return } }
\* from option i on; applied counts the options whose apply was called
RECURSIVE applyFrom(_, _, _)
applyFrom(opts, ops, i) ==
    IF i > Len(opts) THEN [ops |-> ops, err |-> "nil", applied |-> Len(opts)]
    ELSE LET r == apply(opts[i], ops)
         IN  IF r.err # "nil" THEN [ops |-> r.ops, err |-> r.err, applied |-> i]
             ELSE applyFrom(opts, r.ops, i + 1)

applyOptions(opts, tmo) == applyFrom(opts, newOptions(tmo), 1)

\* -------------------------------------------------------------- datagrams

broadcastMac == "ff:ff:ff:ff:ff:ff"

NoDatagram == [oper |-> 0, sha |-> "none", spa |-> NilIP, tha |-> "none", tpa |-> NilIP]

\* newArpRequest: protocol addresses are 4-byte fields
newArpRequest(srcMac, srcIP, dstMac, dstIP) ==
    [oper |-> requestOper, sha |-> srcMac, spa |-> To4(srcIP),
     tha |-> dstMac, tpa |-> To4(dstIP)]

\* datagram.IsResponseOf(request)
IsResponseOf(datagram, request) ==
    datagram.oper = responseOper /\ IPEqual(request.tpa, datagram.spa)

\* ------------------------------------------------------------ raw session

\* The session of one operation: its socket's state, the interface it is
\* bound to, and how often deinitialize and send were invoked on it.
NoSock == [state |-> "none", iface |-> "", closes |-> 0, sends |-> 0]

\* initialize(iface), when it succeeds
initialize(iface) == [state |-> "open", iface |-> iface.name, closes |-> 0, sends |-> 0]

\* sock.deinitialize(): releases the socket; closing again changes nothing more
deinitialize(s) == [s EXCEPT !.state = "closed", !.closes = @ + 1]

\* sock.send(request): one invocation, whatever its outcome
sendOn(s) == [s EXCEPT !.sends = @ + 1]

\* ------------------------------------------------------- results, defaults

NoResult == [mac |-> "none", duration |-> 0, err |-> "pending"]

Failure(e) == [mac |-> "none", duration |-> 0, err |-> e]

NoOptions == [iface |-> NoIface, sourceIP |-> NilIP, timeout |-> 0]

\* pingResultChan := make(chan PingResult) of ArpingOverIface: no buffer
ChanCapUnbuffered == 0

\* pingResultChan := make(chan PingResult, 1) of PingWithOptions
ChanCap == 1

\* ---------------------------------------------------------------- the state

VARIABLES
    timeout,     \* the package variable timeout
    pc,          \* per call: "idle", "select" (caller blocked in select), "done"
    entry,       \* per call: the public function called
    arg,         \* per call: its address argument (NilIP when it takes none)
    optsIn,      \* per call: the options handed to the ...WithOptions function
    ops,         \* per call: the options struct as the apply loop left it
    applied,     \* per call: number of options whose apply was called
    scanned,     \* per call: whether findUsableInterfaceForNetwork was called
    request,     \* per call: the datagram built by newArpRequest
    sock,        \* per call: the session
    chan,        \* per call: pingResultChan
    wpc,         \* per call: the worker goroutine: "none", "send", "recv", "deliver", "exit"
    pending,     \* per call: the PingResult the worker is about to deliver
    lastRecv,    \* per call: the datagram returned by the latest sock.receive()
    timerFired,  \* per call: whether the channel of time.After(ops.timeout) is ready
    took,        \* per call: whether the caller received from pingResultChan
    ret,         \* per call: what the call returned
    now,         \* the reading of the monotonic clock behind time.Now()
    sendTime,    \* per call: the worker's sendTime, as sock.send returned it
    deadline,    \* per call: << >>, or <<d>> once time.After(d) was called
    concurrent   \* whether the caller issues its calls from several goroutines

vars == <<timeout, pc, entry, arg, optsIn, ops, applied, scanned, request, sock,
          chan, wpc, pending, lastRecv, timerFired, took, ret,
          now, sendTime, deadline, concurrent>>

callVars == <<pc, entry, arg, optsIn, ops, applied, scanned, request, sock,
              chan, wpc, pending, lastRecv, timerFired, took, ret,
              now, sendTime, deadline, concurrent>>

InitState ==
    /\ timeout = DefaultTimeout
    /\ pc = [c \in Calls |-> "idle"]
    /\ entry = [c \in Calls |-> "none"]
    /\ arg = [c \in Calls |-> NilIP]
    /\ optsIn = [c \in Calls |-> << >>]
    /\ ops = [c \in Calls |-> NoOptions]
    /\ applied = [c \in Calls |-> 0]
    /\ scanned = [c \in Calls |-> FALSE]
    /\ request = [c \in Calls |-> NoDatagram]
    /\ sock = [c \in Calls |-> NoSock]
    /\ chan = [c \in Calls |-> << >>]
    /\ wpc = [c \in Calls |-> "none"]
    /\ pending = [c \in Calls |-> NoResult]
    /\ lastRecv = [c \in Calls |-> NoDatagram]
    /\ timerFired = [c \in Calls |-> FALSE]
    /\ took = [c \in Calls |-> FALSE]
    /\ ret = [c \in Calls |-> NoResult]
    /\ now = 0
    /\ sendTime = [c \in Calls |-> 0]
    /\ deadline = [c \in Calls |-> << >>]

\* The caller makes its calls one after the other.
Init == InitState /\ concurrent = FALSE

\* The caller makes its calls from goroutines of its own.
ConcInit == InitState /\ concurrent = TRUE

\* ------------------------------------------------------------------ inputs

\* Addresses handed to the public functions: unparseable, IPv6, hosts on the
\* networks A and B in both IPv4 forms, and a host on no local network.
Addresses == {NilIP, V6(9), V4("A", 9), V4in6("A", 9), V4("B", 9), V4("C", 9)}

Options ==
    {WithIfaceByName("eth1"), WithIfaceByName("nope"), WithIface(Interfaces[4]),
     WithSourceIP(V4("A", 7)), WithSourceIP(V6(7)), WithTimeout(TestTimeout)}

RECURSIVE SeqsUpTo(_, _)
SeqsUpTo(S, n) ==
    IF n = 0 THEN {<< >>}
    ELSE LET shorter == SeqsUpTo(S, n - 1)
         IN  shorter \cup {Append(s, x) : s \in shorter, x \in S}

OptionLists == SeqsUpTo(Options, MaxOpts)

\* Datagrams the network may hand to sock.receive()
Incoming ==
    {[oper |-> o, sha |-> m, spa |-> a, tha |-> "m1", tpa |-> V4("A", 2)] :
        o \in {requestOper, responseOper}, m \in {"peer", "other"},
        a \in {V4("A", 9), V4("B", 9)}}

\* ------------------------------------------------- the synchronous parts

\* What the part of a public function that runs before it blocks or returns
\* leaves behind.  started: the worker goroutine was spawned and the caller
\* reached its select.
Outcome(o, n, rq, s, e, st, sc) ==
    [ops |-> o, applied |-> n, request |-> rq, sock |-> s, err |-> e,
     started |-> st, scanned |-> sc]

\* request := newArpRequest(srcMac, srcIP, broadcastMac, dstIP) of PingWithOptions
pingRequest(srcMac, srcIP, dstIP) == newArpRequest(srcMac, srcIP, broadcastMac, dstIP)

\* a gratuitous request addressed to the sender's own hardware address
gratuitousRequestUnicast(srcMac, srcIP) == newArpRequest(srcMac, srcIP, srcMac, srcIP)

\* request := newArpRequest(srcMac, srcIP, broadcastMac, srcIP) of GratuitousArpWithOptions
gratuitousRequest(srcMac, srcIP) == newArpRequest(srcMac, srcIP, broadcastMac, srcIP)

\* a function that registers no deferred close
deferNothing(s) == s

\* defer sock.deinitialize(), run when the function returns
deferDeinitialize(s) == deinitialize(s)

\* sock.deinitialize() of the timeout case
timeoutDeinitialize(s) == deinitialize(s)

\* a ping that goes on without an interface
ifaceMissingNever(o) == FALSE

\* if ops.iface == nil { return nil, 0, ErrNoUsableInterface }
ifaceMissing(o) == o.iface = NoIface

\* a ping that derives its source address whatever the options say
needsLocalAddressAlways(srcIP) == TRUE

\* if len(ops.sourceIP) == 0 { ... findIPInNetworkFromIface ... }
needsLocalAddress(srcIP) == LenIP(srcIP) = 0

\* PingWithOptions up to and including go func() {...}.  initOk: whether
\* initialize(iface) succeeds.
pingSetup(dstIP, opts, tmo, initOk) ==
    IF validateIP(dstIP) # "nil"
    THEN Outcome(NoOptions, 0, NoDatagram, NoSock, validateIP(dstIP), FALSE, FALSE)
    ELSE
    LET a == applyOptions(opts, tmo) IN
    IF a.err # "nil"
    THEN Outcome(a.ops, a.applied, NoDatagram, NoSock, a.err, FALSE, FALSE)
    ELSE IF ifaceMissing(a.ops)
    THEN Outcome(a.ops, a.applied, NoDatagram, NoSock, "ErrNoUsableInterface", FALSE, FALSE)
    ELSE
    LET iface == a.ops.iface
        f == IF needsLocalAddress(a.ops.sourceIP)
             THEN findIpInNetworkFromIface(dstIP, iface)
             ELSE [ip |-> a.ops.sourceIP, err |-> "nil"]
    IN
    IF f.err # "nil"
    THEN Outcome(a.ops, a.applied, NoDatagram, NoSock, f.err, FALSE, FALSE)
    ELSE
    LET rq == pingRequest(iface.hw, f.ip, dstIP) IN
    IF ~initOk
    THEN Outcome(a.ops, a.applied, rq, NoSock, "OpenError", FALSE, FALSE)
    ELSE Outcome(a.ops, a.applied, rq, initialize(iface), "nil", TRUE, FALSE)

\* an announcement that reports an invalid source address before the error
\* of an option
announceErrorValidationFirst(optErr, ipErr) == IF ipErr # "nil" THEN ipErr ELSE optErr

\* GratuitousArpWithOptions: the apply loop returns its error; validateIP(srcIP)
\* comes after the loop
announceError(optErr, ipErr) == IF optErr # "nil" THEN optErr ELSE ipErr

\* an announcement that scans for its interface whatever the options say
announceScansAlways(o) == TRUE

\* if ops.iface == nil { ... findUsableInterfaceForNetwork(srcIP) ... }
announceScans(o) == o.iface = NoIface

\* an announcement that goes on to wait for a reply
announceAwaitsReply == TRUE

\* return sock.send(request) of GratuitousArpWithOptions: no goroutine, no select
announceAwaits == FALSE

\* GratuitousArpWithOptions, whole.  initOk, sendOk: whether initialize and
\* sock.send succeed.
gratuitousSetup(opts, tmo, initOk, sendOk) ==
    LET a == applyOptions(opts, tmo)
        srcIP == a.ops.sourceIP
        e == announceError(a.err, validateIP(srcIP))
    IN
    IF e # "nil"
    THEN Outcome(a.ops, a.applied, NoDatagram, NoSock, e, FALSE, FALSE)
    ELSE
    LET scan == announceScans(a.ops)
        f == IF scan THEN findUsableInterfaceForNetwork(srcIP)
             ELSE [iface |-> a.ops.iface, err |-> "nil"]
    IN
    IF f.err # "nil"
    THEN Outcome(a.ops, a.applied, NoDatagram, NoSock, f.err, FALSE, scan)
    ELSE
    LET rq == gratuitousRequest(f.iface.hw, srcIP) IN
    IF ~initOk
    THEN Outcome(a.ops, a.applied, rq, NoSock, "OpenError", FALSE, scan)
    ELSE Outcome(a.ops, a.applied, rq, deferDeinitialize(sendOn(initialize(f.iface))),
                 IF sendOk THEN "nil" ELSE "SendError", announceAwaits, scan)

\* ----------------------------------------------------------- caller actions

\* A call slot is free; a caller of one goroutine makes its next call when
\* the one before has returned.
CanCall(c) ==
    /\ pc[c] = "idle"
    /\ concurrent \/ \A d \in Calls : d < c => pc[d] = "done"

\* one socket held in a package variable, shared by every call
sessionShared(c) == 1

\* sock, err := initialize(iface): the session is a local of the call
sessionOf(c) == c

\* a timer armed with the package variable timeout
timerDurationGlobal(o, tmo) == tmo

\* time.After(ops.timeout)
timerDuration(o, tmo) == o.timeout

\* The state a public function leaves when it blocks in select or returns.
Leave(c, name, a, opts, o) ==
    /\ pc' = [pc EXCEPT ![c] = IF o.started THEN "select" ELSE "done"]
    /\ entry' = [entry EXCEPT ![c] = name]
    /\ arg' = [arg EXCEPT ![c] = a]
    /\ optsIn' = [optsIn EXCEPT ![c] = opts]
    /\ ops' = [ops EXCEPT ![c] = o.ops]
    /\ applied' = [applied EXCEPT ![c] = o.applied]
    /\ scanned' = [scanned EXCEPT ![c] = o.scanned]
    /\ request' = [request EXCEPT ![c] = o.request]
    /\ sock' = [sock EXCEPT ![sessionOf(c)] = o.sock]
    /\ wpc' = [wpc EXCEPT ![c] = IF o.started THEN "send" ELSE "none"]
    /\ ret' = [ret EXCEPT ![c] = IF o.started THEN NoResult ELSE Failure(o.err)]
    /\ deadline' = [deadline EXCEPT ![c] =
                        IF o.started THEN <<timerDuration(o.ops, timeout)>> ELSE << >>]
    /\ UNCHANGED <<timeout, chan, pending, lastRecv, timerFired, took,
                   now, sendTime, concurrent>>

\* func Ping(dstIP): validate, select the interface, PingOverIface
Ping(c, dstIP) ==
    /\ CanCall(c)
    /\ IF validateIP(dstIP) # "nil"
       THEN Leave(c, "Ping", dstIP, << >>,
                  Outcome(NoOptions, 0, NoDatagram, NoSock, validateIP(dstIP), FALSE, FALSE))
       ELSE LET f == findUsableInterfaceForNetwork(dstIP) IN
            IF f.err # "nil"
            THEN Leave(c, "Ping", dstIP, << >>,
                       Outcome(NoOptions, 0, NoDatagram, NoSock, f.err, FALSE, TRUE))
            ELSE \E initOk \in BOOLEAN :
                    Leave(c, "Ping", dstIP, <<WithIface(f.iface)>>,
                          [pingSetup(dstIP, <<WithIface(f.iface)>>, timeout, initOk)
                             EXCEPT !.scanned = TRUE])

\* func PingWithOptions(dstIP, opts...)
PingWithOptions(c, dstIP, opts) ==
    /\ CanCall(c)
    /\ \E initOk \in BOOLEAN :
          Leave(c, "PingWithOptions", dstIP, opts, pingSetup(dstIP, opts, timeout, initOk))

\* func GratuitousArp(srcIP)
GratuitousArp(c, srcIP) ==
    /\ CanCall(c)
    /\ \E initOk \in BOOLEAN, sendOk \in BOOLEAN :
          Leave(c, "GratuitousArp", srcIP, <<WithSourceIP(srcIP)>>,
                gratuitousSetup(<<WithSourceIP(srcIP)>>, timeout, initOk, sendOk))

\* func GratuitousArpWithOptions(opts...)
GratuitousArpWithOptions(c, opts) ==
    /\ CanCall(c)
    /\ \E initOk \in BOOLEAN, sendOk \in BOOLEAN :
          Leave(c, "GratuitousArpWithOptions", NilIP, opts,
                gratuitousSetup(opts, timeout, initOk, sendOk))

\* func SetTimeout(t)
SetTimeout(t) ==
    /\ timeout' = t
    /\ UNCHANGED callVars

\* the timer of time.After(ops.timeout) fires while the caller is in select
TimerFire(c) ==
    /\ pc[c] = "select"
    /\ ~timerFired[c]
    /\ timerFired' = [timerFired EXCEPT ![c] = TRUE]
    /\ UNCHANGED <<timeout, pc, entry, arg, optsIn, ops, applied, scanned, request,
                   sock, chan, wpc, pending, lastRecv, took, ret,
                   now, sendTime, deadline, concurrent>>

\* a timer that has fired as soon as it is armed
timeoutAlways(c) == TRUE

\* a select without a timeout case
timeoutNever(c) == FALSE

\* case <-time.After(ops.timeout): ready once the timer has fired
timeoutReady(c) == timerFired[c]

\* an error of the worker reported as a timeout
resultErrAsTimeout(r) == IF r.err = "nil" THEN "nil" ELSE "ErrTimeout"

\* return pingResult.mac, pingResult.duration, pingResult.err
resultErr(r) == r.err

\* case pingResult := <-pingResultChan: return it; the deferred close runs
SelectResult(c) ==
    /\ pc[c] = "select"
    /\ chan[c] # << >>
    /\ ret' = [ret EXCEPT ![c] = [mac |-> Head(chan[c]).mac, duration |-> Head(chan[c]).duration,
                                 err |-> resultErr(Head(chan[c]))]]
    /\ chan' = [chan EXCEPT ![c] = Tail(@)]
    /\ took' = [took EXCEPT ![c] = TRUE]
    /\ sock' = [sock EXCEPT ![sessionOf(c)] = deferDeinitialize(@)]
    /\ pc' = [pc EXCEPT ![c] = "done"]
    /\ UNCHANGED <<timeout, entry, arg, optsIn, ops, applied, scanned, request,
                   wpc, pending, lastRecv, timerFired,
                   now, sendTime, deadline, concurrent>>

\* case <-time.After(ops.timeout): close the session, return ErrTimeout; the
\* deferred close runs
SelectTimeout(c) ==
    /\ pc[c] = "select"
    /\ timeoutReady(c)
    /\ sock' = [sock EXCEPT ![sessionOf(c)] = deferDeinitialize(timeoutDeinitialize(@))]
    /\ ret' = [ret EXCEPT ![c] = Failure("ErrTimeout")]
    /\ pc' = [pc EXCEPT ![c] = "done"]
    /\ UNCHANGED <<timeout, entry, arg, optsIn, ops, applied, scanned, request,
                   chan, wpc, pending, lastRecv, timerFired, took,
                   now, sendTime, deadline, concurrent>>

\* ----------------------------------------------------------- worker actions

\* a loop that sends the request again after a datagram it ignores
afterIgnoredResend == "send"

\* for { response, receiveTime, err := sock.receive(); ... }: the loop holds
\* the receive alone
afterIgnored == "recv"

\* a duration taken the wrong way round
elapsedSwapped(receiveTime, sentAt) == sentAt - receiveTime

\* duration := receiveTime.Sub(sendTime)
elapsed(receiveTime, sentAt) == receiveTime - sentAt

\* a worker that stays in its loop after it delivered
afterDeliveredLoop == "recv"

\* pingResultChan <- ...; return, or the end of the goroutine's function
afterDelivered == "exit"

\* a worker that takes any datagram for the response
matchesAny(response, req) == TRUE

\* if response.IsResponseOf(request)
matches(response, req) == IsResponseOf(response, req)

\* sock.send(request): fails on a closed session, and may fail on an open one
WorkerSend(c) ==
    /\ wpc[c] = "send"
    /\ sock' = [sock EXCEPT ![sessionOf(c)] = sendOn(@)]
    /\ sendTime' = [sendTime EXCEPT ![c] = now]
    /\ \E ok \in BOOLEAN :
          IF ok /\ sock[sessionOf(c)].state = "open"
          THEN /\ wpc' = [wpc EXCEPT ![c] = "recv"]
               /\ UNCHANGED pending
          ELSE /\ wpc' = [wpc EXCEPT ![c] = "deliver"]
               /\ pending' = [pending EXCEPT ![c] = Failure("SendError")]
    /\ UNCHANGED <<timeout, pc, entry, arg, optsIn, ops, applied, scanned, request,
                   chan, lastRecv, timerFired, took, ret,
                   now, deadline, concurrent>>

\* sock.receive() returns datagram d
WorkerReceive(c, d) ==
    /\ wpc[c] = "recv"
    /\ sock[sessionOf(c)].state = "open"
    /\ lastRecv' = [lastRecv EXCEPT ![c] = d]
    /\ IF matches(d, request[c])
       THEN /\ wpc' = [wpc EXCEPT ![c] = "deliver"]
            /\ pending' = [pending EXCEPT ![c] =
                              [mac |-> d.sha, duration |-> elapsed(now, sendTime[c]),
                               err |-> "nil"]]
       ELSE /\ wpc' = [wpc EXCEPT ![c] = afterIgnored]
            /\ UNCHANGED pending
    /\ UNCHANGED <<timeout, pc, entry, arg, optsIn, ops, applied, scanned, request,
                   sock, chan, timerFired, took, ret,
                   now, sendTime, deadline, concurrent>>

\* sock.receive() fails on the open session
WorkerReceiveError(c) ==
    /\ wpc[c] = "recv"
    /\ sock[sessionOf(c)].state = "open"
    /\ wpc' = [wpc EXCEPT ![c] = "deliver"]
    /\ pending' = [pending EXCEPT ![c] = Failure("ReceiveError")]
    /\ UNCHANGED <<timeout, pc, entry, arg, optsIn, ops, applied, scanned, request,
                   sock, chan, lastRecv, timerFired, took, ret,
                   now, sendTime, deadline, concurrent>>

\* sock.receive() fails because the session was closed
WorkerReceiveClosed(c) ==
    /\ wpc[c] = "recv"
    /\ sock[sessionOf(c)].state = "closed"
    /\ wpc' = [wpc EXCEPT ![c] = "deliver"]
    /\ pending' = [pending EXCEPT ![c] = Failure("ReceiveClosed")]
    /\ UNCHANGED <<timeout, pc, entry, arg, optsIn, ops, applied, scanned, request,
                   sock, chan, lastRecv, timerFired, took, ret,
                   now, sendTime, deadline, concurrent>>

\* pingResultChan <- PingResult{...}: needs a free slot, or, on a channel
\* without buffer, the caller waiting in select
WorkerDeliver(c) ==
    /\ wpc[c] = "deliver"
    /\ \/ Len(chan[c]) < ChanCap
       \/ ChanCap = 0 /\ chan[c] = << >> /\ pc[c] = "select"
    /\ chan' = [chan EXCEPT ![c] = Append(@, pending[c])]
    /\ wpc' = [wpc EXCEPT ![c] = afterDelivered]
    /\ UNCHANGED <<timeout, pc, entry, arg, optsIn, ops, applied, scanned, request,
                   sock, pending, lastRecv, timerFired, took, ret,
                   now, sendTime, deadline, concurrent>>

\* the clock advances
Tick ==
    /\ now < MaxTime
    /\ now' = now + 1
    /\ UNCHANGED <<timeout, pc, entry, arg, optsIn, ops, applied, scanned, request,
                   sock, chan, wpc, pending, lastRecv, timerFired, took, ret,
                   sendTime, deadline, concurrent>>

\* --------------------------------------------------------- specifications

\* A call by the caller, out of the call slots C, with an address of A and
\* options of O.
CallSteps(C, A, O) ==
    \/ \E c \in C, a \in A : Ping(c, a)
    \/ \E c \in C, a \in A, o \in O : PingWithOptions(c, a, o)
    \/ \E c \in C, a \in A : GratuitousArp(c, a)
    \/ \E c \in C, o \in O : GratuitousArpWithOptions(c, o)

\* A step of a call in flight: of its timer, of the caller's select or of its
\* worker, the network handing over a datagram of D.
RunSteps(C, D) ==
    \/ \E c \in C : TimerFire(c)
    \/ \E c \in C : SelectResult(c)
    \/ \E c \in C : SelectTimeout(c)
    \/ \E c \in C : WorkerSend(c)
    \/ \E c \in C, d \in D : WorkerReceive(c, d)
    \/ \E c \in C : WorkerReceiveError(c)
    \/ \E c \in C : WorkerReceiveClosed(c)
    \/ \E c \in C : WorkerDeliver(c)

\* One call, with every input, the default timeout set at any time.
Next ==
    \/ CallSteps({1}, Addresses, OptionLists)
    \/ \E t \in {DefaultTimeout, TestTimeout} : SetTimeout(t)
    \/ RunSteps({1}, Incoming)

Spec == Init /\ [][Next]_vars

\* The caller's calls one after the other under the default timeout, workers
\* of earlier calls still running: pings and announcements of one host on
\* network A; the network holds a matching reply and another one.
SeqAddresses == {V4in6("A", 9)}

SeqOptionLists == {<< >>}

SeqIncoming == {d \in Incoming : d.sha = "peer" /\ d.oper = responseOper}

SeqNext ==
    \/ CallSteps(Calls, SeqAddresses, SeqOptionLists)
    \/ RunSteps(Calls, SeqIncoming)

SeqSpec == Init /\ [][SeqNext]_vars

\* The scheduler runs a worker goroutine that can take a step.  Nothing makes
\* the network deliver a datagram or fail, and nothing is assumed of the
\* caller or the timer.
WorkerFairness ==
    \A c \in Calls :
        /\ WF_vars(WorkerSend(c))
        /\ WF_vars(WorkerReceiveClosed(c))
        /\ WF_vars(WorkerDeliver(c))

WorkerFairSeqSpec == SeqSpec /\ WorkerFairness

\* A timer that was started fires, and the caller blocked in select runs
\* once its timeout case is ready.  Nothing is assumed of the workers or of
\* the network.
TimerFairness ==
    \A c \in Calls :
        /\ WF_vars(TimerFire(c))
        /\ WF_vars(SelectTimeout(c))

TimerFairSeqSpec == SeqSpec /\ TimerFairness

\* One call of a host on network A while the clock advances.
ClockNext ==
    \/ CallSteps({1}, SeqAddresses, SeqOptionLists)
    \/ RunSteps({1}, SeqIncoming)
    \/ Tick

ClockSpec == Init /\ [][ClockNext]_vars

\* The caller's calls made from goroutines of their own: a call starts
\* whatever the state of the others.
ConcNext ==
    \/ CallSteps(Calls, SeqAddresses, SeqOptionLists)
    \/ RunSteps(Calls, SeqIncoming)

ConcSpec == ConcInit /\ [][ConcNext]_vars

\* ----------------------------------------------------------------- claims

PingEntries == {"Ping", "PingWithOptions"}

AnnounceEntries == {"GratuitousArp", "GratuitousArpWithOptions"}

\* An address that is no IPv4 address: unparseable (nil) or IPv6.
NotIPv4(ip) == ip.kind \in {"nil", "v6"}

\* C1: Ping and GratuitousArp of an address that is no IPv4 address return
\* at once with the 'not a valid v4 Address' error, having selected no
\* interface, opened no session, started no worker and sent nothing.
C1_InvalidAddressRejected ==
    \A c \in Calls :
        (entry[c] \in {"Ping", "GratuitousArp"} /\ NotIPv4(arg[c])) =>
            /\ pc[c] = "done"
            /\ ret[c] = Failure("InvalidAddress")
            /\ ~scanned[c]
            /\ sock[c] = NoSock
            /\ wpc[c] = "none"
            /\ request[c] = NoDatagram

C1_Witness ==
    \E c \in Calls : entry[c] = "Ping" /\ arg[c].kind = "v6" /\ ret[c].err = "InvalidAddress"

\* C3: no operation has returned while the session it opened is still open.
C3_SessionClosedOnReturn ==
    \A c \in Calls : pc[c] = "done" => sock[c].state # "open"

C3_Witness ==
    \E c \in Calls :
        /\ pc[c] = "done" /\ entry[c] \in PingEntries
        /\ ret[c].err = "ReceiveError" /\ sock[c].state = "closed"

\* C4: a ping that opened a session and has returned has had deinitialize
\* invoked on that session exactly once.
C4_ClosedExactlyOnce ==
    \A c \in Calls :
        (pc[c] = "done" /\ entry[c] \in PingEntries /\ sock[c].state # "none") =>
            sock[c].closes = 1

\* C5: a returned ping that had opened a session returned ErrTimeout exactly
\* when its timer had fired and it took no result from the worker; a result
\* it took is returned as the worker reported it, a send or receive failure
\* as that failure; the failure of a receive on the closed session is never
\* what the call returns.
C5_TimeoutDistinct ==
    \A c \in Calls :
        (pc[c] = "done" /\ entry[c] \in PingEntries /\ sock[c].state # "none") =>
            /\ (ret[c].err = "ErrTimeout") <=> (timerFired[c] /\ ~took[c])
            /\ took[c] => /\ ret[c] = pending[c]
                          /\ ret[c].err \in {"nil", "SendError", "ReceiveError"}
            /\ ret[c].err # "ReceiveClosed"

C5_Witness ==
    \E c \in Calls :
        /\ pc[c] = "done" /\ ret[c].err = "ErrTimeout"
        /\ chan[c] # << >> /\ Head(chan[c]).err = "ReceiveClosed"

\* Whether datagram d answers a ping of address dst.
Answers(d, dst) == d.oper = responseOper /\ IPEqual(d.spa, dst)

C6_SuccessIsMatchingReply ==
    \A c \in Calls :
        (entry[c] \in PingEntries /\ (pending[c].err = "nil" \/ ret[c].err = "nil")) =>
            /\ Answers(lastRecv[c], arg[c])
            /\ pending[c].mac = lastRecv[c].sha /\ pending[c].err = "nil"
            /\ ret[c] \in {NoResult, Failure("ErrTimeout"), pending[c]}

C6_IgnoredDatagramKeepsWaiting ==
    \A c \in Calls :
        (lastRecv'[c] # lastRecv[c] /\ ~Answers(lastRecv'[c], arg[c])) =>
            /\ wpc'[c] = "recv"
            /\ pending'[c] = pending[c]
            /\ chan'[c] = chan[c]
            /\ pc'[c] = pc[c]
            /\ ret'[c] = ret[c]

\* C6: a ping succeeds only for a received datagram that is a Reply whose
\* sender protocol address is the destination, and returns that datagram's
\* sender hardware address; a received datagram that does not match ends
\* nothing: the worker stays in its receive loop and delivers nothing.
C6_OnlyMatchingReplySucceeds ==
    [] C6_SuccessIsMatchingReply /\ [][C6_IgnoredDatagramKeepsWaiting]_vars

C6_Witness ==
    \E c \in Calls :
        /\ pc[c] = "done" /\ arg[c] = V4in6("A", 9)
        /\ ret[c].mac = "other" /\ ret[c].err = "nil"

\* C8: send is invoked at most once per call: never without a session, once
\* by the time the worker is past its send or the announce has returned,
\* and not again after an error, an ignored datagram or a timeout.
C8_SentAtMostOnce ==
    \A c \in Calls :
        /\ sock[c].sends <= 1
        /\ sock[c].state = "none" => (sock[c].sends = 0 /\ wpc[c] = "none")
        /\ wpc[c] \in {"recv", "deliver", "exit"} => sock[c].sends = 1
        /\ wpc[c] = "send" => sock[c].sends = 0
        /\ (entry[c] \in AnnounceEntries /\ sock[c].state # "none") => sock[c].sends = 1

C8_Witness ==
    \E c \in Calls :
        /\ wpc[c] = "exit" /\ sock[c].sends = 1 /\ ret[c].err = "ErrTimeout"
        /\ lastRecv[c] # NoDatagram

\* The option list as far as it is applied: up to the first interface name
\* that names no interface, that one excluded.
InterfaceNames == {Interfaces[i].name : i \in 1..Len(Interfaces)}

FailsToApply(opt) == opt.type = "ifaceName" /\ opt.name \notin InterfaceNames

FirstFailing(opts) ==
    LET bad == {i \in 1..Len(opts) : FailsToApply(opts[i])}
    IN  IF bad = {} THEN 0 ELSE CHOOSE i \in bad : \A j \in bad : i <= j

AppliedPrefix(opts) ==
    IF FirstFailing(opts) = 0 THEN opts ELSE SubSeq(opts, 1, FirstFailing(opts) - 1)

\* The position of the last option of one of the types ts, 0 if there is none.
LastOfType(opts, ts) ==
    LET at == {i \in 1..Len(opts) : opts[i].type \in ts}
    IN  IF at = {} THEN 0 ELSE CHOOSE i \in at : \A j \in at : j <= i

NamedInterface(name) == CHOOSE f \in {Interfaces[i] : i \in 1..Len(Interfaces)} : f.name = name

\* What the options struct holds after opts were applied over default tmo.
LastWins(opts, tmo) ==
    LET p == AppliedPrefix(opts)
        i == LastOfType(p, {"ifaceName", "netInterface"})
        s == LastOfType(p, {"netIP"})
        t == LastOfType(p, {"duration"})
    IN  [iface |-> IF i = 0 THEN NoIface
                   ELSE IF p[i].type = "netInterface" THEN p[i].iface
                   ELSE NamedInterface(p[i].name),
         sourceIP |-> IF s = 0 THEN NilIP ELSE p[s].ip,
         timeout |-> IF t = 0 THEN tmo ELSE p[t].d]

\* A step in which call c is made and its options are applied.
AppliesOptions(c) ==
    /\ pc[c] = "idle"
    /\ pc'[c] # "idle"
    /\ entry'[c] \in PingEntries => validateIP(arg'[c]) = "nil"
    /\ entry'[c] = "Ping" => scanned'[c] /\ optsIn'[c] # << >>

C9_FoldOnCall ==
    \A c \in Calls :
        AppliesOptions(c) =>
            /\ ops'[c] = LastWins(optsIn'[c], timeout)
            /\ FirstFailing(optsIn'[c]) # 0 =>
                  /\ pc'[c] = "done"
                  /\ ret'[c] = Failure("NoSuchInterface")
                  /\ applied'[c] = FirstFailing(optsIn'[c])
                  /\ sock'[c] = NoSock
                  /\ wpc'[c] = "none"
            /\ FirstFailing(optsIn'[c]) = 0 =>
                  /\ applied'[c] = Len(optsIn'[c])
                  /\ ret'[c].err # "NoSuchInterface"

\* C9: the options struct of a call holds, per field, the value of the last
\* option that sets it, the default where none does, every option leaving
\* the other fields alone; when an option fails to apply, the call returns
\* that option's error, applies no later option and opens no session.
C9_OptionsFold == [][C9_FoldOnCall]_vars

C9_Witness ==
    \E c \in Calls :
        /\ optsIn[c] = <<WithSourceIP(V4("A", 7)), WithSourceIP(V6(7))>>
        /\ entry[c] = "GratuitousArpWithOptions"
        /\ ops[c].sourceIP = V6(7)
        /\ ops[c].timeout = TestTimeout
        /\ ret[c].err = "InvalidAddress"

\* The address an announce call announces, and the interface it uses.
Announced(c) == IF entry[c] = "GratuitousArp" THEN arg[c] ELSE ops[c].sourceIP

UpInterfacesReaching(ip) ==
    {i \in 1..Len(Interfaces) :
        /\ Interfaces[i].flags % 2 = 1
        /\ \E k \in 1..Len(Interfaces[i].addrs) : Contains(Interfaces[i].addrs[k], ip)}

AnnounceInterface(c) ==
    IF ops[c].iface # NoIface THEN ops[c].iface
    ELSE Interfaces[CHOOSE i \in UpInterfacesReaching(Announced(c)) :
                        \A j \in UpInterfacesReaching(Announced(c)) : i <= j]

\* C10: the datagram an announce builds has the announced address as sender
\* and as target protocol address, the hardware address of the interface
\* used as sender hardware address, and the broadcast address as target
\* hardware address.
C10_AnnounceDatagram ==
    \A c \in Calls :
        (entry[c] \in AnnounceEntries /\ request[c] # NoDatagram) =>
            /\ IPEqual(request[c].spa, Announced(c))
            /\ IPEqual(request[c].tpa, Announced(c))
            /\ request[c].spa = request[c].tpa
            /\ request[c].sha = AnnounceInterface(c).hw
            /\ request[c].tha = "ff:ff:ff:ff:ff:ff"
            /\ request[c].oper = requestOper

C10_Witness ==
    \E c \in Calls :
        /\ entry[c] = "GratuitousArp" /\ arg[c] = V4in6("A", 9)
        /\ request[c].sha = "m1" /\ request[c].tha = "ff:ff:ff:ff:ff:ff"
        /\ sock[c].sends = 1 /\ ret[c].err = "nil"

\* C2: once a ping has returned, whatever it returned, the worker it started
\* terminates, also after several pings in a row that timed out.
C2_WorkerTerminates ==
    \A c \in Calls : (pc[c] = "done" /\ wpc[c] # "none") ~> (wpc[c] = "exit")

C2_Witness ==
    \A c \in 1..2 : ret[c].err = "ErrTimeout" /\ wpc[c] = "exit"

\* C7: a ping that opened a session and waits in its select returns, whatever
\* the worker and the network do, provided only that its timer fires.
C7_PingReturns ==
    \A c \in Calls : (pc[c] = "select") ~> (pc[c] = "done")

C7_Witness ==
    \E c \in Calls : pc[c] = "done" /\ ret[c].err = "ErrTimeout" /\ wpc[c] = "recv"

\* The option list without its timeout options.
WithoutTimeouts(opts) == SelectSeq(opts, LAMBDA o : o.type # "duration")

\* Call c is entered by this step, through one of the functions of E.
Enters(c, E) == pc[c] = "idle" /\ pc'[c] # "idle" /\ entry'[c] \in E

C11_AnnounceNeverWaits ==
    \A c \in Calls :
        entry[c] \in AnnounceEntries =>
            /\ pc[c] = "done"
            /\ wpc[c] = "none" /\ chan[c] = << >> /\ pending[c] = NoResult
            /\ lastRecv[c] = NoDatagram
            /\ deadline[c] = << >> /\ ~timerFired[c]
            /\ sock[c].sends = (IF sock[c].state = "none" THEN 0 ELSE 1)
            /\ sock[c].state # "none" => ret[c].err \in {"nil", "SendError"}
            /\ ret[c].mac = "none"

C11_TimeoutOptionIgnored ==
    \A c \in Calls :
        Enters(c, AnnounceEntries) =>
            \E initOk \in BOOLEAN, sendOk \in BOOLEAN :
                LET o == gratuitousSetup(WithoutTimeouts(optsIn'[c]), timeout,
                                         initOk, sendOk)
                IN  /\ ret'[c] = Failure(o.err)
                    /\ sock'[c] = o.sock
                    /\ request'[c] = o.request
                    /\ scanned'[c] = o.scanned

\* C11: an announcement never waits: it has returned as soon as it was
\* called, with no worker, no receive, no timer and nothing on a channel; it
\* invokes send once when it opened a session and then returns nil or the
\* send's error; and what it does and returns is what the same call without
\* its timeout options does and returns.
C11_AnnounceSendsAndReturns ==
    [] C11_AnnounceNeverWaits /\ [][C11_TimeoutOptionIgnored]_vars

C11_Witness ==
    \E c \in Calls :
        /\ entry[c] = "GratuitousArpWithOptions" /\ pc[c] = "done"
        /\ \E i \in DOMAIN optsIn[c] : optsIn[c][i].type = "duration"
        /\ sock[c].sends = 1 /\ sock[c].state = "closed" /\ ret[c].err = "nil"

\* The first interface, in enumeration order, that is up and has a bound
\* network holding ip.
FirstUpInterfaceReaching(ip) ==
    Interfaces[CHOOSE i \in UpInterfacesReaching(ip) :
                   \A j \in UpInterfacesReaching(ip) : i <= j]

\* C12: the destination-based scan of Ping and GratuitousArp selects the
\* first interface in enumeration order that is up and has a bound network
\* holding the address, whatever interfaces that are down or hold no such
\* network come before it, and fails with the no-usable-interface error
\* exactly when there is no such interface.
C12_ScanSelectsFirstUpInterface ==
    \A c \in Calls :
        (entry[c] \in {"Ping", "GratuitousArp"} /\ ~NotIPv4(arg[c])) =>
            /\ scanned[c]
            /\ ret[c].err = "NoUsableInterfaceFound" <=> UpInterfacesReaching(arg[c]) = {}
            /\ UpInterfacesReaching(arg[c]) # {} =>
                  /\ request[c].sha = FirstUpInterfaceReaching(arg[c]).hw
                  /\ entry[c] = "Ping" =>
                        optsIn[c] = <<WithIface(FirstUpInterfaceReaching(arg[c]))>>
                  /\ sock[c].state # "none" =>
                        sock[c].iface = FirstUpInterfaceReaching(arg[c]).name

C12_Witness ==
    \E c \in Calls :
        /\ entry[c] = "Ping" /\ arg[c] = V4in6("A", 9) /\ sock[c].iface = "eth1"
        /\ Interfaces[2].flags = 0 /\ Contains(Interfaces[2].addrs[1], arg[c])

\* The options name no interface, and each of them applies.
NamesNoInterface(opts) ==
    FirstFailing(opts) = 0 /\ LastOfType(opts, {"ifaceName", "netInterface"}) = 0

\* Call c is a ping that was handed a valid destination and no interface.
PingWithoutInterface(c) ==
    /\ ~NotIPv4(arg[c])
    /\ \/ entry[c] = "Ping"
       \/ entry[c] = "PingWithOptions" /\ NamesNoInterface(optsIn[c])

\* C13, as claimed: every ping entry point that is handed no interface
\* selects one by the destination, and fails with a no-usable-interface
\* error only when no up interface has a network holding the destination.
C13_EveryPingSelectsByDestination ==
    \A c \in Calls :
        PingWithoutInterface(c) =>
            /\ ret[c].err \in {"NoUsableInterfaceFound", "ErrNoUsableInterface"} =>
                  UpInterfacesReaching(arg[c]) = {}
            /\ UpInterfacesReaching(arg[c]) # {} =>
                  request[c].sha = FirstUpInterfaceReaching(arg[c]).hw

\* C13, amended: Ping selects the interface by the destination and fails
\* with the no-usable-interface error of the scan only when no up interface
\* has a network holding the destination; PingWithOptions whose options
\* name no interface selects none: it returns ErrNoUsableInterface without a
\* scan, a datagram, a session or a worker, whatever interfaces there are.
C13_OnlyPingSelectsByDestination ==
    \A c \in Calls :
        PingWithoutInterface(c) =>
            IF entry[c] = "Ping"
            THEN /\ scanned[c]
                 /\ ret[c].err # "ErrNoUsableInterface"
                 /\ ret[c].err = "NoUsableInterfaceFound" =>
                       UpInterfacesReaching(arg[c]) = {}
                 /\ UpInterfacesReaching(arg[c]) # {} =>
                       request[c].sha = FirstUpInterfaceReaching(arg[c]).hw
            ELSE /\ ~scanned[c]
                 /\ pc[c] = "done" /\ ret[c] = Failure("ErrNoUsableInterface")
                 /\ request[c] = NoDatagram /\ sock[c] = NoSock /\ wpc[c] = "none"

C13_Witness ==
    \E c \in Calls :
        /\ entry[c] = "PingWithOptions" /\ arg[c] = V4("A", 9)
        /\ optsIn[c] = <<WithTimeout(TestTimeout), WithSourceIP(V4("A", 7))>>
        /\ UpInterfacesReaching(arg[c]) # {}
        /\ ret[c].err = "ErrNoUsableInterface"

\* C14: when the options of PingWithOptions or GratuitousArpWithOptions
\* hold an interface option, by identity or by name, the destination-based
\* scan is not invoked, and a session that is opened is opened on the
\* interface of the last interface option.
C14_ExplicitInterfaceBypassesScan ==
    \A c \in Calls :
        (/\ entry[c] \in {"PingWithOptions", "GratuitousArpWithOptions"}
         /\ LastOfType(optsIn[c], {"ifaceName", "netInterface"}) # 0) =>
            /\ ~scanned[c]
            /\ sock[c].state # "none" =>
                  /\ FirstFailing(optsIn[c]) = 0
                  /\ sock[c].iface = LastWins(optsIn[c], timeout).iface.name

C14_Witness ==
    \E c \in Calls :
        /\ entry[c] = "GratuitousArpWithOptions"
        /\ optsIn[c] = <<WithIface(Interfaces[4]), WithSourceIP(V4("A", 7))>>
        /\ FirstUpInterfaceReaching(V4("A", 7)).name = "eth1"
        /\ sock[c].state = "closed" /\ sock[c].iface = "eth2"

C16_DurationNonNegative ==
    \A c \in Calls :
        entry[c] \in PingEntries =>
            /\ wpc[c] \in {"recv", "deliver", "exit"} => sendTime[c] <= now
            /\ pending[c].err = "nil" =>
                  /\ lastRecv[c] # NoDatagram
                  /\ pending[c].duration >= 0
                  /\ sendTime[c] + pending[c].duration <= now
            /\ ret[c].err = "nil" => ret[c].duration = pending[c].duration
            /\ pending[c].err # "nil" => pending[c].duration = 0
            /\ ret[c].err # "nil" => ret[c].duration = 0

C16_Witness ==
    \E c \in Calls :
        /\ entry[c] \in PingEntries /\ ret[c].err = "nil"
        /\ sendTime[c] > 0 /\ ret[c].duration > 0

\* The number of results the worker of call c has put on pingResultChan.
Delivered(c) == Len(chan[c]) + (IF took[c] THEN 1 ELSE 0)

C17_DeliveryNeverBlocks ==
    \A c \in Calls :
        /\ Delivered(c) <= 1
        /\ wpc[c] \in {"none", "send", "recv", "deliver"} => Delivered(c) = 0
        /\ wpc[c] = "exit" => Delivered(c) = 1
        /\ wpc[c] = "deliver" => ENABLED WorkerDeliver(c)

C17_ExitedWorkerStays ==
    \A c \in Calls : wpc[c] = "exit" => wpc'[c] = "exit" /\ Delivered(c)' = 1

\* C17: the worker of a ping puts at most one result on the result channel:
\* none before it is about to deliver, one once it has exited, and it does
\* nothing after it exited.  A worker about to deliver can always do so,
\* the caller waiting or returned, as the one slot of the channel is free.
C17_AtMostOneDelivery ==
    [] C17_DeliveryNeverBlocks /\ [][C17_ExitedWorkerStays]_vars

C17_Witness ==
    \E c \in Calls :
        /\ pc[c] = "done" /\ ret[c].err = "ErrTimeout"
        /\ wpc[c] = "exit" /\ Len(chan[c]) = 1 /\ ~took[c]

\* Everything call c owns: its locals, its session, its channel, its worker.
CallState(c) ==
    <<pc[c], entry[c], arg[c], optsIn[c], ops[c], applied[c], scanned[c],
      request[c], sock[c], chan[c], wpc[c], pending[c], lastRecv[c],
      timerFired[c], took[c], ret[c], sendTime[c], deadline[c]>>

C18_OwnSession ==
    \A c \in Calls :
        /\ sock[c].state = "closed" => pc[c] = "done"
        /\ pc[c] = "select" => sock[c].state = "open"
        /\ pending[c].err = "ReceiveClosed" => ret[c].err = "ErrTimeout"
        /\ sock[c].sends <= 1
        /\ Delivered(c) <= 1

C18_StepOfOneCall ==
    \A c, d \in Calls :
        c # d => (CallState(c)' = CallState(c) \/ CallState(d)' = CallState(d))

\* C18: calls made concurrently are independent: a step of one call, of
\* its worker or of its timer (the close of its session among them) changes
\* nothing another call owns, so it makes no other call fail, time out or
\* return; a session is closed only by the return of the call that opened
\* it, is sent on at most once, and a worker's receive fails for a closed
\* session only after its own call timed out.
C18_ConcurrentPingsIndependent ==
    [] C18_OwnSession /\ [][C18_StepOfOneCall]_vars

C18_Witness ==
    \E c, d \in Calls :
        /\ d < c
        /\ ret[c].err = "ErrTimeout" /\ sock[c].state = "closed"
        /\ pc[d] = "select" /\ sock[d].state = "open" /\ wpc[d] = "recv"

\* The duration of the last timeout option of opts, or tmo without one.
TimeoutOf(opts, tmo) ==
    IF LastOfType(opts, {"duration"}) = 0 THEN tmo
    ELSE opts[LastOfType(opts, {"duration"})].d

C19_DeadlineAtStart ==
    \A c \in Calls :
        /\ (Enters(c, PingEntries) /\ pc'[c] = "select") =>
              deadline'[c] = <<TimeoutOf(optsIn'[c], timeout)>>
        /\ Enters(c, AnnounceEntries) => deadline'[c] = << >>

C19_DeadlineKept ==
    \A c \in Calls :
        pc[c] # "idle" => deadline'[c] = deadline[c] /\ ops'[c] = ops[c]

\* C19: the deadline of a ping is the duration of its last timeout option
\* or, without one, the default timeout as it is when the call is made; once
\* the call is made nothing changes its deadline or its options, a
\* SetTimeout included, which shows only in calls made after it.
C19_DeadlineReadOnce ==
    [][C19_DeadlineAtStart /\ C19_DeadlineKept]_vars

C19_Witness ==
    \E c \in Calls :
        /\ pc[c] = "select" /\ LastOfType(optsIn[c], {"duration"}) = 0
        /\ deadline[c] = <<DefaultTimeout>> /\ timeout = TestTimeout

\* The positions of the bound networks of iface that hold ip.
NetworksReaching(iface, ip) ==
    {k \in 1..Len(iface.addrs) : Contains(iface.addrs[k], ip)}

\* The local address of the first bound network of iface that holds ip.
FirstLocalAddress(iface, ip) ==
    iface.addrs[CHOOSE k \in NetworksReaching(iface, ip) :
                    \A j \in NetworksReaching(iface, ip) : k <= j].ip

\* Call c is a ping of a valid destination over an interface of its options.
PingOverInterface(c) ==
    /\ entry[c] \in PingEntries /\ ~NotIPv4(arg[c])
    /\ FirstFailing(optsIn[c]) = 0
    /\ LastOfType(optsIn[c], {"ifaceName", "netInterface"}) # 0

C21_ValidationOrder ==
    \A c \in Calls :
        /\ (entry[c] = "PingWithOptions" /\ NotIPv4(arg[c])) =>
              /\ ret[c] = Failure("InvalidAddress")
              /\ applied[c] = 0 /\ ops[c] = NoOptions
        /\ (entry[c] = "PingWithOptions" /\ ~NotIPv4(arg[c])
                /\ FirstFailing(optsIn[c]) # 0) =>
              ret[c] = Failure("NoSuchInterface")
        /\ (entry[c] = "GratuitousArpWithOptions" /\ FirstFailing(optsIn[c]) # 0) =>
              /\ ret[c] = Failure("NoSuchInterface")
              /\ applied[c] = FirstFailing(optsIn[c])
        /\ (entry[c] = "GratuitousArpWithOptions" /\ ret[c].err = "InvalidAddress") =>
              /\ FirstFailing(optsIn[c]) = 0
              /\ applied[c] = Len(optsIn[c])
              /\ NotIPv4(LastWins(optsIn[c], timeout).sourceIP)

C21_Witness ==
    \E c \in Calls :
        /\ entry[c] = "GratuitousArpWithOptions"
        /\ optsIn[c] = <<WithSourceIP(V6(7)), WithIfaceByName("nope")>>
        /\ validateIP(ops[c].sourceIP) = "InvalidAddress"
        /\ ret[c].err = "NoSuchInterface"

\* The worker of call c calls sock.send in this step.
WorkerSends(c) == wpc[c] = "send" /\ wpc'[c] # "send"

\* The worker of call c gets a datagram from sock.receive in this step.
WorkerReceives(c) == wpc[c] = "recv" /\ lastRecv'[c] # lastRecv[c]

C22_SessionOpenWhenUsed ==
    \A c \in Calls : (WorkerSends(c) \/ WorkerReceives(c)) => sock[c].state = "open"

\* C22, as claimed: the worker starts no send and no receive on a session
\* that the caller has closed.
C22_NoUseAfterClose == [][C22_SessionOpenWhenUsed]_vars

====
